---- MODULE Spec2Model ----
(***************************************************************************)
(* A model of src/spotify_chart.py (class SpotifyChartHistory):            *)
(*   make_api_request      the retry loop around one outbound call         *)
(*   get_track_genres      the genre lookup, which swallows every failure  *)
(*   get_chart_by_date     one snapshot of the playlist                    *)
(*   get_charts_by_period  the collection loop with its checkpoints        *)
(* Times are whole seconds (sleeps) and whole hours (capture timestamps).  *)
(***************************************************************************)
EXTENDS Integers, Sequences, FiniteSets, TLC

VARIABLES req, fetch, run

vars == <<req, fetch, run>>

(***************************************************************************)
(* Program constants of make_api_request.                                  *)
(***************************************************************************)
max_attempts == 5
base_delay == 2
JitterMax == 2
DefaultRetryAfter == 5
MinCeiling == 5
RateLimitStatus == 429

(***************************************************************************)
(* Bounds of the model.                                                    *)
(***************************************************************************)
MaxRetryAfter == 10

RECURSIVE Pow2(_)
Pow2(n) == IF n = 0 THEN 1 ELSE 2 * Pow2(n - 1)

Min(a, b) == IF a <= b THEN a ELSE b
Max(a, b) == IF a >= b THEN a ELSE b

(***************************************************************************)
(* What one invocation of the wrapped operation does: it returns, or it    *)
(* raises a SpotifyException (an upstream error response with its status   *)
(* and, possibly, a Retry-After header) or any other exception.            *)
(***************************************************************************)
OkOutcome == [kind |-> "ok", http_status |-> 200, has_retry_after |-> FALSE, retry_after |-> 0]
SpotifyError(status, has, ra) ==
    [kind |-> "spotify", http_status |-> status, has_retry_after |-> has, retry_after |-> ra]
RateLimit(ra) == SpotifyError(RateLimitStatus, TRUE, ra)
RateLimitNoHint == SpotifyError(RateLimitStatus, FALSE, 0)
OtherError == [kind |-> "other", http_status |-> 0, has_retry_after |-> FALSE, retry_after |-> 0]

HttpErrorStatuses == {401, 500}
RetryAfterValues == {1, DefaultRetryAfter, MaxRetryAfter}
Jitters == 0..JitterMax

Outcomes ==
    {OkOutcome, OtherError, RateLimitNoHint}
        \cup {RateLimit(ra) : ra \in RetryAfterValues}
        \cup {SpotifyError(s, FALSE, 0) : s \in HttpErrorStatuses}

(***************************************************************************)
(* The state of one call of make_api_request.  status is "running" inside  *)
(* the loop, "returned" after a normal return (result "value": what the    *)
(* operation returned; result "None": the loop ran out and the function    *)
(* fell off its end) and "raised" after an exception left the function.    *)
(* sleeps lists the calls of time.sleep, each with the attempt, the        *)
(* exception and the jitter it was computed from.                          *)
(***************************************************************************)
NewRequest ==
    [attempt |-> 0, status |-> "running", result |-> "pending", calls |-> 0,
     sleeps |-> <<>>, e |-> OkOutcome, jitter |-> 0]

\* e.headers.get('Retry-After', 5), line 54
RetryAfterOf(e) == IF e.has_retry_after THEN e.retry_after ELSE DefaultRetryAfter

\* A variant that forgets the ceiling of line 56.
RateLimitWait_NoCeiling(attempt, jitter, retry_after) ==
    base_delay * Pow2(attempt) + jitter

\* lines 55-56
RateLimitWait(attempt, jitter, retry_after) ==
    Min(base_delay * Pow2(attempt) + jitter, Max(retry_after, MinCeiling))

\* line 66
ErrorWait(attempt) == base_delay * Pow2(attempt)

Slept(r, wait) == [attempt |-> r.attempt, e |-> r.e, jitter |-> r.jitter, wait |-> wait]

\* time.sleep(wait); continue: the next iteration, or the end of the loop,
\* after which the function returns None.
Continue(r, wait) ==
    [r EXCEPT !.attempt = r.attempt + 1,
              !.sleeps = Append(r.sleeps, Slept(r, wait)),
              !.status = IF r.attempt + 1 < max_attempts THEN "running" ELSE "returned",
              !.result = IF r.attempt + 1 < max_attempts THEN "pending" ELSE "None"]

Raise(r) == [r EXCEPT !.status = "raised", !.result = "error"]

\* A variant that treats every SpotifyException as a rate-limit signal.
OnSpotifyException_RetriesAll(r, e, jitter) ==
    Continue([r EXCEPT !.jitter = jitter],
             RateLimitWait(r.attempt, jitter, RetryAfterOf(e)))

\* except spotipy.exceptions.SpotifyException, lines 52-61
OnSpotifyException(r, e, jitter) ==
    IF e.http_status = RateLimitStatus
    THEN Continue([r EXCEPT !.jitter = jitter],
                  RateLimitWait(r.attempt, jitter, RetryAfterOf(e)))
    ELSE Raise(r)

\* A variant that gives up one attempt early.
OnException_GivesUpEarly(r) ==
    IF r.attempt < max_attempts - 2
    THEN Continue(r, ErrorWait(r.attempt))
    ELSE Raise(r)

\* except Exception, lines 63-69
OnException(r) ==
    IF r.attempt < max_attempts - 1
    THEN Continue(r, ErrorWait(r.attempt))
    ELSE Raise(r)

\* One iteration of the loop of make_api_request, lines 49-69.
AttemptStep(r0, e, jitter) ==
    LET r == [r0 EXCEPT !.calls = r0.calls + 1, !.e = e, !.jitter = 0] IN
    CASE e.kind = "ok" -> [r EXCEPT !.status = "returned", !.result = "value"]
      [] e.kind = "spotify" -> OnSpotifyException(r, e, jitter)
      [] OTHER -> OnException(r)

(***************************************************************************)
(* make_api_request as a whole, against an operation whose successive      *)
(* invocations behave as a script says: the first `fails` invocations      *)
(* raise e, the later ones return.                                         *)
(***************************************************************************)
Script(e, fails) == [e |-> e, fails |-> fails]
Healthy == Script(OkOutcome, 0)
ScriptOutcome(script, attempt) == IF attempt < script.fails THEN script.e ELSE OkOutcome

RECURSIVE RunRequest(_, _, _)
RunRequest(r, script, jitter) ==
    IF r.status # "running"
    THEN r
    ELSE RunRequest(AttemptStep(r, ScriptOutcome(script, r.attempt), jitter), script, jitter)

make_api_request(script, jitter) == RunRequest(NewRequest, script, jitter)

\* What one call of make_api_request does to the outside: the invocations
\* of the operation func, each failed one followed by its sleep.
RECURSIVE RequestEvents(_, _, _)
RequestEvents(func, r, k) ==
    IF k > r.calls
    THEN <<>>
    ELSE <<[op |-> "call", what |-> func, secs |-> 0]>>
         \o (IF k <= Len(r.sleeps)
             THEN <<[op |-> "sleep", what |-> "retry", secs |-> r.sleeps[k].wait]>>
             ELSE <<>>)
         \o RequestEvents(func, r, k + 1)

(***************************************************************************)
(* The upstream service as one snapshot sees it: the listing has n items,  *)
(* the audio-feature entries of the positions in nulls are null, and the   *)
(* three operations behave as their scripts say (the audio-feature script  *)
(* is that of batch bad_batch, the artist script that of the lookups for   *)
(* the positions in flaky; every other call returns at once).              *)
(***************************************************************************)
BatchSize == 100
delay_seconds == 2
GenreDelay == 1

Track(up, k) == [id |-> up.n + 1 - k, artist |-> (up.n + 2 - k) \div 2]

AudioFeatures(up, k) == [null |-> k \in up.nulls, id |-> Track(up, k).id]

ArtistGenres(artist) ==
    CASE artist % 3 = 0 -> <<>>
      [] artist % 3 = 1 -> <<"pop">>
      [] OTHER -> <<"pop", "dance">>

FeaturesScript(up, batch) == IF batch = up.bad_batch THEN up.features ELSE Healthy
ArtistScript(up, k) == IF k \in up.flaky THEN up.artist ELSE Healthy

\* A variant that does not sleep.
SleepEvent_Dropped(what, secs) == <<>>

\* time.sleep(secs), lines 98 and 108
SleepEvent(what, secs) == <<[op |-> "sleep", what |-> what, secs |-> secs]>>

(***************************************************************************)
(* get_track_genres, lines 71-76: the genres of the artist, or the empty   *)
(* list when the request raised or returned None.                          *)
(***************************************************************************)
get_track_genres(up, k, jitter) ==
    LET r == make_api_request(ArtistScript(up, k), jitter) IN
    [genres |-> IF r.status = "raised" \/ r.result = "None"
                THEN <<>>
                ELSE ArtistGenres(Track(up, k).artist),
     events |-> RequestEvents("artist", r, 1)]

\* A variant without the sentinel.
GenreField_NoSentinel(genres) == genres

\* ', '.join(genres) if genres else 'Unknown', line 120
GenreField(genres) == IF genres = <<>> THEN <<"Unknown">> ELSE genres

\* strftime('%Y%m%d') and strftime('%H:%M') of a timestamp in hours
FormattedDate(target_date) == target_date \div 24
FormattedTime(target_date) == target_date % 24

\* The record of lines 112-131: the rank is the position in the listing,
\* track stands for the fields read from the track, features for those read
\* from its audio-feature entry.
ChartRecord(target_date, track_info, genres, features) ==
    [date |-> FormattedDate(target_date),
     time |-> FormattedTime(target_date),
     rank |-> track_info.idx,
     track |-> track_info.track.id,
     genre |-> GenreField(genres),
     features |-> features.id]

\* A variant that numbers the listing from 0.
TrackInfo_ZeroBased(up, k) == [idx |-> k - 1, track |-> Track(up, k)]

\* tracks_info[k - 1], lines 87-90: the listing is enumerated from 1
TrackInfo(up, k) == [idx |-> k, track |-> Track(up, k)]

\* A variant that skips nothing.
Skipped_Never(features) == FALSE

\* if not features: continue, lines 101-102
Skipped(features) == features.null

\* A variant that stamps the record with the tick shifted by the jitter
\* drawn while retrying.
FeatureEntry_StampsJitter(up, target_date, jitter, k) ==
    LET features == AudioFeatures(up, k) IN
    IF features.null
    THEN [chart_data |-> <<>>, events |-> <<>>]
    ELSE [chart_data |-> <<ChartRecord(target_date + jitter, TrackInfo(up, k),
                                       get_track_genres(up, k, jitter).genres, features)>>,
          events |-> SleepEvent("genre_delay", GenreDelay)
                     \o get_track_genres(up, k, jitter).events]

\* One pass of the body of the loop of lines 100-131, for the entry of
\* position k (1-based) of the listing: what it adds to chart_data, and the
\* sleep and the calls it makes.
FeatureEntry(up, target_date, jitter, k) ==
    LET features == AudioFeatures(up, k) IN
    IF Skipped(features)
    THEN [chart_data |-> <<>>, events |-> <<>>]
    ELSE LET track_info == TrackInfo(up, k)
             g == get_track_genres(up, k, jitter)
         IN  [chart_data |-> <<ChartRecord(target_date, track_info, g.genres, features)>>,
              events |-> SleepEvent("genre_delay", GenreDelay) \o g.events]

\* The loop of lines 100-131 over the entries of positions lo..hi, in order
\* (no pass depends on an earlier one, so the range is split in halves).
RECURSIVE FeaturesLoop(_, _, _, _, _)
FeaturesLoop(up, target_date, jitter, lo, hi) ==
    IF lo > hi
    THEN [chart_data |-> <<>>, events |-> <<>>]
    ELSE IF lo = hi
    THEN FeatureEntry(up, target_date, jitter, lo)
    ELSE LET mid == (lo + hi) \div 2
             first == FeaturesLoop(up, target_date, jitter, lo, mid)
             rest == FeaturesLoop(up, target_date, jitter, mid + 1, hi)
         IN  [chart_data |-> first.chart_data \o rest.chart_data,
              events |-> first.events \o rest.events]

\* track_ids, lines 82-89: the ids of the listing, in its order
TrackIds(up) == [k \in 1..up.n |-> Track(up, k).id]

\* A variant whose slices share their last element with the next slice.
BatchIds_Overlapping(track_ids, i) ==
    SubSeq(track_ids, i + 1, Min(i + BatchSize + 1, Len(track_ids)))

\* track_ids[i:i+100], line 95
BatchIds(track_ids, i) == SubSeq(track_ids, i + 1, Min(i + BatchSize, Len(track_ids)))

\* The loop of lines 94-131 over the batches, from position i (0-based);
\* batches lists the batch_ids handed to the audio-feature call.
\* A request that raises, or a None where a list is expected (TypeError),
\* leaves the try block.
RECURSIVE BatchLoop(_, _, _, _, _)
BatchLoop(up, target_date, jitter, i, acc) ==
    IF i >= up.n
    THEN acc
    ELSE LET r == make_api_request(FeaturesScript(up, i \div BatchSize + 1), jitter)
             called == [acc EXCEPT !.events = @ \o RequestEvents("audio_features", r, 1),
                                   !.batches = Append(@, BatchIds(TrackIds(up), i))]
             slept == [called EXCEPT !.events = @ \o SleepEvent("batch_delay", delay_seconds)]
         IN  IF r.status = "raised"
             THEN [called EXCEPT !.failed = TRUE]
             ELSE IF r.result = "None"
             THEN [slept EXCEPT !.failed = TRUE]
             ELSE LET batch == FeaturesLoop(up, target_date, jitter,
                                            i + 1, Min(i + BatchSize, up.n))
                  IN  BatchLoop(up, target_date, jitter, i + BatchSize,
                                [slept EXCEPT !.chart_data = @ \o batch.chart_data,
                                              !.events = @ \o batch.events])

\* The try block of get_chart_by_date, lines 81-133.
TryBlock(up, target_date, jitter) ==
    LET r == make_api_request(up.playlist, jitter)
        acc == [chart_data |-> <<>>, failed |-> FALSE,
                events |-> RequestEvents("playlist_tracks", r, 1), batches |-> <<>>]
    IN  IF r.status = "raised" \/ r.result = "None"
        THEN [acc EXCEPT !.failed = TRUE]
        ELSE BatchLoop(up, target_date, jitter, 0, acc)

\* A variant that returns what was assembled before the failure.
get_chart_by_date_Partial(up, target_date, jitter) ==
    LET t == TryBlock(up, target_date, jitter) IN
    [chart |-> t.chart_data, failed |-> t.failed, events |-> t.events,
     batches |-> t.batches]

\* get_chart_by_date, lines 78-137: the chart data, or the empty list when
\* anything was raised inside the try block.
get_chart_by_date(up, target_date, jitter) ==
    LET t == TryBlock(up, target_date, jitter) IN
    [chart |-> IF t.failed THEN <<>> ELSE t.chart_data,
     failed |-> t.failed,
     events |-> t.events,
     batches |-> t.batches]

(***************************************************************************)
(* The upstreams the model draws from.  For a small listing every pattern  *)
(* of null entries, of flaky lookups and of failing operations is drawn.   *)
(* A large listing is half a batch, a whole batch, or a batch and one      *)
(* track; there the null entries are drawn among the second and the last   *)
(* position, and at most one operation misbehaves: the listing, the first  *)
(* or the last audio-feature batch, or the lookup for the first or the     *)
(* last position.                                                          *)
(***************************************************************************)
MaxSmallListing == 3

SmallListings == 0..MaxSmallListing
LargeListings == {BatchSize \div 2, BatchSize, BatchSize + 1}

Batches(n) == (n + BatchSize - 1) \div BatchSize

FailingScripts ==
    {Script(RateLimit(DefaultRetryAfter), 3),
     Script(RateLimitNoHint, max_attempts),
     Script(SpotifyError(500, FALSE, 0), 1),
     Script(OtherError, max_attempts)}

Upstream(n, nulls, playlist, bad_batch, features, flaky, artist) ==
    [n |-> n, nulls |-> nulls, playlist |-> playlist, bad_batch |-> bad_batch,
     features |-> features, flaky |-> flaky, artist |-> artist]

HealthyUpstream(n, nulls) == Upstream(n, nulls, Healthy, 0, Healthy, {}, Healthy)

SmallUpstreams(n) ==
    {Upstream(n, nulls, playlist, bf[1], bf[2], fa[1], fa[2]) :
        nulls \in SUBSET (1..n),
        playlist \in {Healthy} \cup FailingScripts,
        bf \in {<<0, Healthy>>} \cup ((1..Batches(n)) \X FailingScripts),
        fa \in {<<{}, Healthy>>} \cup ((SUBSET (1..n) \ {{}}) \X FailingScripts)}

LargeUpstreams(n) ==
    UNION {
        {HealthyUpstream(n, nulls)}
        \cup {[HealthyUpstream(n, nulls) EXCEPT !.playlist = s] : s \in FailingScripts}
        \cup {[HealthyUpstream(n, nulls) EXCEPT !.bad_batch = b, !.features = s] :
                b \in {1, Batches(n)}, s \in FailingScripts}
        \cup {[HealthyUpstream(n, nulls) EXCEPT !.flaky = {k}, !.artist = s] :
                k \in {1, n}, s \in FailingScripts}
        : nulls \in SUBSET {2, n}}

Upstreams ==
    UNION ({SmallUpstreams(n) : n \in SmallListings}
           \cup {LargeUpstreams(n) : n \in LargeListings})

TargetDates == {0, 25}

(***************************************************************************)
(* SpecFetch: get_chart_by_date on its own, against every upstream.        *)
(***************************************************************************)
InitFetch ==
    /\ req = [NewRequest EXCEPT !.status = "idle"]
    /\ run = [pc |-> "none"]
    /\ \E up \in Upstreams, target_date \in TargetDates, jitter \in Jitters :
         fetch = [pc |-> "call", up |-> up, target_date |-> target_date,
                  jitter |-> jitter, chart |-> <<>>, failed |-> FALSE, events |-> <<>>,
                  batches |-> <<>>,
                  again |-> [jitter |-> jitter, chart |-> <<>>, events |-> <<>>]]

FetchChart ==
    /\ fetch.pc = "call"
    /\ LET got == get_chart_by_date(fetch.up, fetch.target_date, fetch.jitter) IN
       fetch' = [fetch EXCEPT !.pc = "done", !.chart = got.chart,
                              !.failed = got.failed, !.events = got.events,
                              !.batches = got.batches]
    /\ UNCHANGED <<req, run>>

\* A second call with the same timestamp against the same upstream; the
\* jitter of line 55 is drawn anew.
FetchAgain ==
    /\ fetch.pc = "done"
    /\ \E jitter \in Jitters :
         LET got == get_chart_by_date(fetch.up, fetch.target_date, jitter) IN
         fetch' = [fetch EXCEPT !.pc = "again",
                                !.again = [jitter |-> jitter, chart |-> got.chart,
                                           events |-> got.events]]
    /\ UNCHANGED <<req, run>>

NextFetch == FetchChart \/ FetchAgain

SpecFetch == InitFetch /\ [][NextFetch]_vars

(***************************************************************************)
(* get_charts_by_period, lines 139-172.  Timestamps are hours.             *)
(***************************************************************************)
CheckpointEvery == 100

\* interval_timedelta.get(interval, timedelta(hours=1)), lines 144-152
IntervalDelta(interval) ==
    CASE interval = "hour" -> 1
      [] interval = "day" -> 24
      [] interval = "week" -> 7 * 24
      [] interval = "month" -> 30 * 24
      [] interval = "year" -> 365 * 24
      [] OTHER -> 1

\* int(a / b) for b > 0: the quotient, truncated towards zero
IntQuotient(a, b) == IF a >= 0 THEN a \div b ELSE -((-a) \div b)

\* A variant that forgets the first tick.
TotalIterations_NoPlusOne(start_date, end_date, delta) ==
    IntQuotient(end_date - start_date, delta)

\* line 154
TotalIterations(start_date, end_date, delta) ==
    IntQuotient(end_date - start_date, delta) + 1

\* save_intermediate_data, lines 174-188: the file named after the
\* timestamp gets the data, unless the write fails, which is logged only.
save_intermediate_data(data, current_date, write_ok) ==
    [filename |-> <<FormattedDate(current_date), FormattedTime(current_date)>>,
     data |-> data,
     written |-> write_ok]

\* A variant that fires once the buffer holds a hundred records.
CheckpointDue_AtLeast(all_charts) == Len(all_charts) >= CheckpointEvery

\* line 164
CheckpointDue(all_charts) == Len(all_charts) % CheckpointEvery = 0

\* The state after lines 140-156.
NewRun(start_date, end_date, interval) ==
    [pc |-> "loop",
     start_date |-> start_date, end_date |-> end_date, interval |-> interval,
     delta |-> IntervalDelta(interval),
     total_iterations |-> TotalIterations(start_date, end_date, IntervalDelta(interval)),
     current_date |-> start_date,
     all_charts |-> <<>>,
     pbar |-> 0,
     ticks |-> <<>>,
     tick_failed |-> FALSE,
     saves |-> <<>>,
     saved |-> FALSE]

\* The rest of an iteration once the buffer is all_charts, lines 164-170.
AfterExtend(r, got, write_ok, all_charts) ==
    LET due == CheckpointDue(all_charts)
    IN  [r EXCEPT !.all_charts = all_charts,
                  !.ticks = Append(@, r.current_date),
                  !.tick_failed = got.failed,
                  !.saves = IF due
                            THEN Append(@, save_intermediate_data(all_charts, r.current_date,
                                                                  write_ok))
                            ELSE @,
                  !.saved = due,
                  !.current_date = r.current_date + r.delta,
                  !.pbar = r.pbar + 1]

\* A variant that puts the new records in front of the buffer.
TickStep_Prepend(r, got, write_ok) ==
    AfterExtend(r, got, write_ok, got.chart \o r.all_charts)

\* A variant that leaves the timestamp where it was.
TickStep_StaysPut(r, got, write_ok) ==
    [AfterExtend(r, got, write_ok, r.all_charts \o got.chart) EXCEPT
        !.current_date = r.current_date]

\* A variant that keeps the records of the last tick only.
TickStep_Overwrites(r, got, write_ok) ==
    AfterExtend(r, got, write_ok, got.chart)

\* A variant in which a failed write of the checkpoint leaves the loop.
TickStep_StopsOnWriteFailure(r, got, write_ok) ==
    LET after == AfterExtend(r, got, write_ok, r.all_charts \o got.chart) IN
    IF after.saved /\ ~write_ok THEN [after EXCEPT !.pc = "raised"] ELSE after

\* One iteration of the loop, lines 158-170; got is what get_chart_by_date
\* gave for r.current_date, and line 162 extends the buffer at its end.
TickStep(r, got, write_ok) ==
    AfterExtend(r, got, write_ok, r.all_charts \o got.chart)

(***************************************************************************)
(* Spec: one run of get_charts_by_period.  The run is drawn with at most   *)
(* MaxTicks ticks; each tick meets one of the upstreams of TickUpstreams.  *)
(***************************************************************************)
MaxTicks == 3

Intervals == {"hour", "day", "week", "month", "year", "minute"}
StartDates == {30}

EndDates(start_date, delta) ==
    {start_date + k * delta + rest :
        k \in 0..(MaxTicks - 1), rest \in {0, delta - 1}}
    \cup {start_date - 1, start_date - delta - 1}

TickUpstreams ==
    {HealthyUpstream(0, {}),
     HealthyUpstream(3, {2}),
     HealthyUpstream(BatchSize \div 2, {}),
     HealthyUpstream(BatchSize, {}),
     HealthyUpstream(BatchSize + 1, {}),
     [HealthyUpstream(2, {}) EXCEPT !.flaky = {1}, !.artist = Script(OtherError, max_attempts)],
     [HealthyUpstream(BatchSize \div 2, {}) EXCEPT !.playlist = Script(RateLimitNoHint, max_attempts)],
     [HealthyUpstream(2, {}) EXCEPT !.playlist = Script(SpotifyError(500, FALSE, 0), 1)],
     [HealthyUpstream(BatchSize + 1, {}) EXCEPT
         !.bad_batch = 2, !.features = Script(OtherError, max_attempts)]}

\* The jitter a tick draws (it reaches the sleeps only), and whether the
\* write of a checkpoint succeeds (drawn when one is due).
TickJitters == {JitterMax}
WriteOutcomes(all_charts) == IF CheckpointDue(all_charts) THEN BOOLEAN ELSE {TRUE}

Init ==
    /\ req = [NewRequest EXCEPT !.status = "idle"]
    /\ fetch = [pc |-> "none"]
    /\ \E interval \in Intervals, start_date \in StartDates :
         \E end_date \in EndDates(start_date, IntervalDelta(interval)) :
            run = NewRun(start_date, end_date, interval)

Tick ==
    /\ run.pc = "loop"
    /\ run.current_date <= run.end_date
    /\ \E up \in TickUpstreams, jitter \in TickJitters :
         LET got == get_chart_by_date(up, run.current_date, jitter) IN
         \E write_ok \in WriteOutcomes(run.all_charts \o got.chart) :
            run' = TickStep(run, got, write_ok)
    /\ UNCHANGED <<req, fetch>>

Return ==
    /\ run.pc = "loop"
    /\ run.current_date > run.end_date
    /\ run' = [run EXCEPT !.pc = "done"]
    /\ UNCHANGED <<req, fetch>>

Next == Tick \/ Return

Spec == Init /\ [][Next]_vars

(***************************************************************************)
(* Properties of get_charts_by_period (under Spec).                        *)
(***************************************************************************)
TickTaken == run.pc = "loop" /\ run'.pc = "loop" /\ Len(run'.ticks) = Len(run.ticks) + 1
Last(seq) == seq[Len(seq)]

\* C3: a tick emits a checkpoint, holding the whole buffer and named after
\* the tick's timestamp, if and only if the number of records in the buffer
\* after the tick's append is divisible by 100.
C3_CheckpointIffDivisible ==
    [][TickTaken =>
         IF Len(run'.all_charts) % 100 = 0
         THEN /\ Len(run'.saves) = Len(run.saves) + 1
              /\ SubSeq(run'.saves, 1, Len(run.saves)) = run.saves
              /\ Last(run'.saves).data = run'.all_charts
              /\ Last(run'.saves).filename =
                    <<run.current_date \div 24, run.current_date % 24>>
         ELSE run'.saves = run.saves]_vars

C3_Witness ==
    /\ Len(run.ticks) = 2
    /\ Len(run.all_charts) = 100
    /\ Len(run.saves) = 1
    /\ run.saves[1].data = run.all_charts
    /\ run.all_charts[1].time # run.all_charts[100].time

\* C6: for end >= start the fetcher is invoked floor((end - start) /
\* interval) + 1 times, at start, start + interval, ..., each <= end; that
\* number is the progress total computed before the loop.
C6_TickSchedule ==
    /\ \A i \in 1..Len(run.ticks) :
          /\ run.ticks[i] = run.start_date + (i - 1) * run.delta
          /\ run.ticks[i] <= run.end_date
    /\ (run.pc = "done" /\ run.end_date >= run.start_date) =>
          /\ Len(run.ticks) = (run.end_date - run.start_date) \div run.delta + 1
          /\ Len(run.ticks) = run.total_iterations
          /\ run.pbar = run.total_iterations

C6_Witness ==
    /\ run.pc = "done"
    /\ run.interval = "hour"
    /\ run.end_date = run.start_date + 2
    /\ run.ticks = <<run.start_date, run.start_date + 1, run.start_date + 2>>

\* C8: a tick whose fetch failed leaves the buffer as it was and the loop
\* running, and the run ends only when the timestamp has passed end.
C8_FailedTickKeepsRun ==
    /\ [][(TickTaken /\ run'.tick_failed) =>
            /\ run'.all_charts = run.all_charts
            /\ run'.current_date = run.current_date + run.delta
            /\ run'.pbar = run.pbar + 1]_vars
    /\ [](run.pc = "done" =>
            /\ run.current_date > run.end_date
            /\ \A t \in {run.start_date + k * run.delta : k \in 0..MaxTicks} :
                  t <= run.end_date => \E i \in 1..Len(run.ticks) : run.ticks[i] = t)

C8_Witness ==
    /\ run.pc = "done"
    /\ Len(run.ticks) = 3
    /\ run.tick_failed
    /\ Len(run.all_charts) = 4
    /\ run.all_charts[1].time # run.all_charts[4].time

\* C11: the buffer is ordered by capture tick first and by rank second;
\* within one snapshot the ranks increase strictly and are the positions of
\* the tracks in the listing (track n + 1 - k is at position k), whatever
\* the batch a track fell into.
Stamp(record) == record.date * 24 + record.time

C11_BufferOrdered ==
    /\ \A i \in 1..Len(run.all_charts) :
          \E t \in 1..Len(run.ticks) : Stamp(run.all_charts[i]) = run.ticks[t]
    /\ \A i \in 1..(Len(run.all_charts) - 1) :
          LET a == run.all_charts[i]
              b == run.all_charts[i + 1]
          IN  \/ Stamp(a) < Stamp(b)
              \/ /\ Stamp(a) = Stamp(b)
                 /\ a.rank < b.rank
                 /\ a.track + a.rank = b.track + b.rank

C11_Witness ==
    /\ run.pc = "done"
    /\ Len(run.ticks) = 2
    /\ Len(run.all_charts) = BatchSize + 3
    /\ run.all_charts[2].rank = 3
    /\ run.all_charts[BatchSize + 3].rank = BatchSize + 1
    /\ Stamp(run.all_charts[2]) < Stamp(run.all_charts[3])

\* C13: a tick whose checkpoint could not be written leaves the loop
\* running with the timestamp advanced, and the buffer is the one that was
\* handed to the write: the old buffer followed by the records of this tick;
\* the run ends by returning the buffer, never by an error.
WriteFailed ==
    /\ run.pc = "loop"
    /\ Len(run'.ticks) = Len(run.ticks) + 1
    /\ run'.saved
    /\ ~Last(run'.saves).written

C13_WriteFailureNotFatal ==
    /\ [][WriteFailed =>
            /\ run'.pc = "loop"
            /\ run'.current_date = run.current_date + run.delta
            /\ run'.all_charts = Last(run'.saves).data
            /\ SubSeq(run'.all_charts, 1, Len(run.all_charts)) = run.all_charts
            /\ \A i \in (Len(run.all_charts) + 1)..Len(run'.all_charts) :
                  Stamp(run'.all_charts[i]) = run.current_date]_vars
    /\ [][run'.pc = "done" => run'.all_charts = run.all_charts]_vars
    /\ [](run.pc \in {"loop", "done"})

C13_Witness ==
    /\ run.pc = "done"
    /\ Len(run.saves) = 1
    /\ ~run.saves[1].written
    /\ Len(run.saves[1].data) = CheckpointEvery
    /\ Len(run.all_charts) > CheckpointEvery
    /\ SubSeq(run.all_charts, 1, CheckpointEvery) = run.saves[1].data

\* C18: every checkpoint holds a buffer that is not empty and whose length
\* is a multiple of 100; none is emitted while the buffer is still empty.
C18_CheckpointsNonEmpty ==
    \A i \in 1..Len(run.saves) :
        /\ Len(run.saves[i].data) > 0
        /\ Len(run.saves[i].data) % CheckpointEvery = 0

\* C19: the buffer only grows at its end: after a tick the buffer before
\* it is a prefix of the buffer after it and what follows are records of
\* this tick (none when the tick yielded nothing); the checkpoints already
\* emitted stay as they were and a new one holds the whole buffer, the
\* records of the earlier ticks included; returning changes nothing.
TickDone == run.pc = "loop" /\ Len(run'.ticks) = Len(run.ticks) + 1

C19_BufferAppendOnly ==
    /\ [][TickDone =>
            /\ Len(run'.all_charts) >= Len(run.all_charts)
            /\ \A i \in 1..Len(run.all_charts) : run'.all_charts[i] = run.all_charts[i]
            /\ \A i \in (Len(run.all_charts) + 1)..Len(run'.all_charts) :
                  Stamp(run'.all_charts[i]) = run.current_date
            /\ \A i \in 1..Len(run.saves) : run'.saves[i] = run.saves[i]
            /\ run'.saved =>
                  /\ Len(run'.saves) = Len(run.saves) + 1
                  /\ Last(run'.saves).data = run'.all_charts
                  /\ Len(Last(run'.saves).data) >= Len(run.all_charts)]_vars
    /\ [][~TickDone => run'.all_charts = run.all_charts /\ run'.saves = run.saves]_vars

C19_Witness ==
    /\ run.pc = "done"
    /\ Len(run.ticks) = 3
    /\ Len(run.saves) = 2
    /\ run.saves[1].data = <<>>
    /\ run.saves[2].data = run.all_charts
    /\ Len(run.all_charts) = CheckpointEvery
    /\ Stamp(run.all_charts[1]) = run.ticks[2]
    /\ Stamp(run.all_charts[CheckpointEvery]) = run.ticks[3]

(***************************************************************************)
(* Properties of get_chart_by_date (under SpecFetch).                      *)
(***************************************************************************)
Fetched == fetch.pc = "done"
Calls(events, what) ==
    {i \in 1..Len(events) : events[i].op = "call" /\ events[i].what = what}
Ranks(chart) == {chart[i].rank : i \in 1..Len(chart)}
LookupFails(up, k, jitter) ==
    LET r == make_api_request(ArtistScript(up, k), jitter) IN
    r.status = "raised" \/ r.result = "None"

\* C4 as stated: the ranks of a snapshot are exactly {1, ..., k} for some
\* k not greater than the listing size, with no duplicates.
C4_RanksContiguous ==
    Fetched =>
        /\ Ranks(fetch.chart) = 1..Len(fetch.chart)
        /\ Len(fetch.chart) <= fetch.up.n

\* C4 amended: the ranks of a snapshot are pairwise distinct positions of
\* the listing, namely those whose audio-feature entry is not null; they
\* are {1, ..., k} when no entry is null.
C4_RanksAreListingPositions ==
    Fetched =>
        /\ \A i, j \in 1..Len(fetch.chart) :
              i # j => fetch.chart[i].rank # fetch.chart[j].rank
        /\ Ranks(fetch.chart) \subseteq 1..fetch.up.n
        /\ ~fetch.failed => Ranks(fetch.chart) = (1..fetch.up.n) \ fetch.up.nulls
        /\ fetch.up.nulls = {} => Ranks(fetch.chart) = 1..Len(fetch.chart)

C4_Witness ==
    /\ Fetched /\ ~fetch.failed
    /\ fetch.up.n = BatchSize + 1
    /\ fetch.up.nulls = {2}
    /\ Ranks(fetch.chart) = (1..(BatchSize + 1)) \ {2}

\* C5: a track whose audio-feature entry is null is in no record; when the
\* snapshot does not abort, every other track of the listing is in exactly
\* one record, so there are as many records as non-null entries.
C5_NullEntriesSkipped ==
    Fetched =>
        /\ \A i \in 1..Len(fetch.chart) :
              /\ fetch.chart[i].rank \notin fetch.up.nulls
              /\ \E k \in (1..fetch.up.n) \ fetch.up.nulls :
                    fetch.chart[i].track = Track(fetch.up, k).id
        /\ ~fetch.failed =>
              /\ Len(fetch.chart) = fetch.up.n - Cardinality(fetch.up.nulls)
              /\ \A k \in (1..fetch.up.n) \ fetch.up.nulls :
                    Cardinality({i \in 1..Len(fetch.chart) :
                                   fetch.chart[i].track = Track(fetch.up, k).id}) = 1

C5_Witness ==
    /\ Fetched /\ ~fetch.failed
    /\ fetch.up.n = 3
    /\ fetch.up.nulls = {2}
    /\ Len(fetch.chart) = 2

\* C7: when the genre lookup of a track fails, the track's record is
\* emitted with genre "Unknown", and the snapshot is otherwise the one the
\* same upstream gives with no lookup failing.
C7_GenreFailureIsolated ==
    (Fetched /\ ~fetch.failed) =>
        LET up == fetch.up
            clean == get_chart_by_date([up EXCEPT !.flaky = {}],
                                       fetch.target_date, fetch.jitter).chart
        IN  /\ Len(fetch.chart) = Len(clean)
            /\ \A i \in 1..Len(fetch.chart) :
                  IF LookupFails(up, fetch.chart[i].rank, fetch.jitter)
                  THEN fetch.chart[i] = [clean[i] EXCEPT !.genre = <<"Unknown">>]
                  ELSE fetch.chart[i] = clean[i]
            /\ \A k \in (1..up.n) \ up.nulls :
                  LookupFails(up, k, fetch.jitter) =>
                    \E i \in 1..Len(fetch.chart) :
                        fetch.chart[i].rank = k /\ fetch.chart[i].genre = <<"Unknown">>

C7_Witness ==
    /\ Fetched /\ ~fetch.failed
    /\ fetch.up.n = 3 /\ fetch.up.nulls = {}
    /\ fetch.up.flaky = {2}
    /\ LookupFails(fetch.up, 2, fetch.jitter)
    /\ Len(fetch.chart) = 3
    /\ fetch.chart[2].genre = <<"Unknown">>
    /\ fetch.chart[1].genre # <<"Unknown">>
    /\ fetch.chart[3].genre # <<"Unknown">>

\* C16: when the listing request or the request of an audio-feature batch
\* fails (it raises, or its retries are used up by rate-limit signals), the
\* call returns the empty sequence, also when the batches before the failing
\* one had been assembled; and every record returned has its fields
\* resolved: the tick's date and time, a rank of the listing, the track and
\* its own features, and a genre text.
Gives(script) ==
    IF script.fails = 0 THEN "value"
    ELSE IF script.e.kind = "spotify" /\ script.e.http_status # RateLimitStatus THEN "raised"
    ELSE IF script.fails < max_attempts THEN "value"
    ELSE IF script.e.kind = "spotify" THEN "None"
    ELSE "raised"

PipelineFails(up) ==
    \/ Gives(up.playlist) # "value"
    \/ up.bad_batch \in 1..Batches(up.n) /\ Gives(up.features) # "value"

C16_NoPartialSnapshot ==
    Fetched =>
        /\ PipelineFails(fetch.up) => fetch.chart = <<>>
        /\ \A i \in 1..Len(fetch.chart) :
              LET record == fetch.chart[i] IN
              /\ record.date = fetch.target_date \div 24
              /\ record.time = fetch.target_date % 24
              /\ record.rank \in 1..fetch.up.n
              /\ record.track = Track(fetch.up, record.rank).id
              /\ record.features = record.track
              /\ record.genre # <<>>

C16_Witness ==
    /\ Fetched
    /\ fetch.up.n = BatchSize + 1
    /\ fetch.up.bad_batch = 2
    /\ fetch.up.features = Script(RateLimitNoHint, max_attempts)
    /\ fetch.up.nulls = {}
    /\ Cardinality(Calls(fetch.events, "artist")) = BatchSize
    /\ fetch.chart = <<>>

\* C17 as stated: between any two outbound calls of a snapshot there is a
\* sleep.
IsCall(event) == event.op = "call"
IsSleep(event, what) == event.op = "sleep" /\ event.what = what

C12_SameRecordsAgain ==
    fetch.pc = "again" => fetch.again.chart = fetch.chart

C12_Witness ==
    /\ fetch.pc = "again"
    /\ fetch.again.jitter # fetch.jitter
    /\ fetch.again.events # fetch.events
    /\ Len(fetch.chart) >= 2
    /\ \E i \in 1..Len(fetch.chart) : fetch.chart[i].genre = <<"Unknown">>

\* C14: the batches handed to the audio-feature call are the consecutive
\* slices of at most 100 of the track ids, in listing order: batch b holds
\* the ids of positions 100(b-1)+1 .. min(100b, n); a run without a failure
\* makes ceil(n/100) of them, one request each, so that every id is in
\* exactly one batch; and the entry at place j of batch b supplies the
\* features of the record of the track at place j of that batch.
C14_BatchesPartitionListing ==
    Fetched =>
        /\ Len(fetch.batches) <= Batches(fetch.up.n)
        /\ ~fetch.failed => Len(fetch.batches) = Batches(fetch.up.n)
        /\ \A b \in 1..Len(fetch.batches) :
              /\ Len(fetch.batches[b]) = Min(BatchSize, fetch.up.n - BatchSize * (b - 1))
              /\ \A j \in 1..Len(fetch.batches[b]) :
                    fetch.batches[b][j] = Track(fetch.up, BatchSize * (b - 1) + j).id
        /\ fetch.up.bad_batch = 0 =>
              Cardinality(Calls(fetch.events, "audio_features")) = Len(fetch.batches)
        /\ \A i \in 1..Len(fetch.chart) :
              LET record == fetch.chart[i]
                  b == ((record.rank - 1) \div BatchSize) + 1
                  j == ((record.rank - 1) % BatchSize) + 1
              IN  /\ fetch.batches[b][j] = record.features
                  /\ record.features = record.track

C14_Witness ==
    /\ Fetched
    /\ fetch.up.n = BatchSize + 1
    /\ Len(fetch.batches) = 2
    /\ Len(fetch.batches[1]) = BatchSize
    /\ Len(fetch.batches[2]) = 1
    /\ Len(fetch.chart) = BatchSize + 1
    /\ fetch.chart[BatchSize + 1].features = fetch.batches[2][1]

(***************************************************************************)
(* SpecClient: make_api_request on its own, against an operation that may  *)
(* do anything on each invocation.                                         *)
(***************************************************************************)
InitClient ==
    /\ req = [NewRequest EXCEPT !.status = "idle"]
    /\ fetch = [pc |-> "none"]
    /\ run = [pc |-> "none"]

ApiStart ==
    /\ req.status # "running"
    /\ req' = NewRequest
    /\ UNCHANGED <<fetch, run>>

ApiReturns ==
    /\ req.status = "running"
    /\ req' = AttemptStep(req, OkOutcome, 0)
    /\ UNCHANGED <<fetch, run>>

ApiSpotifyException ==
    /\ req.status = "running"
    /\ \E e \in {o \in Outcomes : o.kind = "spotify"} : \E jitter \in Jitters :
         req' = AttemptStep(req, e, jitter)
    /\ UNCHANGED <<fetch, run>>

ApiException ==
    /\ req.status = "running"
    /\ req' = AttemptStep(req, OtherError, 0)
    /\ UNCHANGED <<fetch, run>>

NextClient == ApiStart \/ ApiReturns \/ ApiSpotifyException \/ ApiException

SpecClient == InitClient /\ [][NextClient]_vars

(***************************************************************************)
(* SpecLoops: the two loops of the program side by side, a behaviour being *)
(* either calls of make_api_request or one run of get_charts_by_period.    *)
(***************************************************************************)
InitLoops == InitClient \/ Init

NextLoops == (run.pc = "none" /\ NextClient) \/ Next

SpecLoops == InitLoops /\ [][NextLoops]_vars

(***************************************************************************)
(* Properties of make_api_request (under SpecClient).                      *)
(***************************************************************************)
Finished(r) == r.status \in {"returned", "raised"}
IsRateLimit(e) == e.kind = "spotify" /\ e.http_status = RateLimitStatus
SleepIndexes(r) == 1..Len(r.sleeps)

\* C1: when every one of the max_attempts attempts has failed, the call
\* raises; it does not return normally.
C1_ExhaustionPropagates ==
    (Finished(req) /\ req.calls = max_attempts /\ req.e.kind # "ok")
        => req.status = "raised"

\* C2: every rate-limit wait is min(max(base_delay * 2^attempt + jitter,
\* hint), cap), so it is never shorter than the Retry-After hint (the cap
\* taken is the ceiling the code applies, which is never below the hint).
C2_WaitHonoursHint ==
    \A i \in SleepIndexes(req) :
        LET s == req.sleeps[i]
            hint == RetryAfterOf(s.e)
            cap == Max(hint, MinCeiling)
        IN  IsRateLimit(s.e) =>
              /\ s.wait = Min(Max(base_delay * Pow2(s.attempt) + s.jitter, hint), cap)
              /\ s.wait >= hint

\* C9 as stated: a failure that is not a rate-limit signal and is transient
\* (a 5xx response included; 401 is the credential failure) is propagated
\* only by the final attempt.
C9_TransientRetriedToTheEnd ==
    (req.status = "raised" /\ req.e.http_status # 401) => req.calls = max_attempts

\* C9 amended: a failure that is not a SpotifyException is retried after a
\* sleep of base_delay * 2^attempt and is propagated by the final attempt
\* only.
C9_UnexpectedErrorRetried ==
    /\ \A i \in SleepIndexes(req) :
          req.sleeps[i].e.kind = "other" => req.sleeps[i].wait = base_delay * Pow2(i - 1)
    /\ (req.calls >= 1 /\ req.e.kind = "other") =>
          IF req.calls < max_attempts
          THEN req.status = "running" /\ Len(req.sleeps) = req.calls
          ELSE req.status = "raised" /\ Len(req.sleeps) = max_attempts - 1

C9_Witness ==
    /\ req.status = "raised"
    /\ req.calls = max_attempts
    /\ Len(req.sleeps) = max_attempts - 1
    /\ \A i \in SleepIndexes(req) : req.sleeps[i].e.kind = "other"
    /\ req.e.kind = "other"

\* C15: an attempt answered by a SpotifyException that is not a rate-limit
\* signal ends the call at once with that exception: no sleep follows it
\* (every sleep belongs to an earlier attempt that failed otherwise), the operation
\* is not invoked again, and when it is the first answer the operation was
\* invoked exactly once and nothing was slept.
IsFatal(e) == e.kind = "spotify" /\ e.http_status # RateLimitStatus

C15_FatalErrorNotRetried ==
    /\ [][(req.status = "running" /\ req'.calls = req.calls + 1 /\ IsFatal(req'.e)) =>
            /\ req'.status = "raised"
            /\ req'.sleeps = req.sleeps
            /\ req'.attempt = req.attempt]_vars
    /\ [][req.status = "raised" => req' = NewRequest]_vars
    /\ []((req.calls >= 1 /\ IsFatal(req.e)) =>
            /\ req.status = "raised"
            /\ Len(req.sleeps) = req.calls - 1
            /\ \A i \in SleepIndexes(req) : ~IsFatal(req.sleeps[i].e)
            /\ (req.attempt = 0 => req.calls = 1 /\ req.sleeps = <<>>))

C15_Witness ==
    /\ req.status = "raised"
    /\ req.calls = 1
    /\ req.sleeps = <<>>
    /\ req.e = SpotifyError(401, FALSE, 0)

\* C10: every rate-limit wait is at least base_delay and at most the
\* ceiling max(Retry-After, 5) (so at most 10 s for a hint of 5 s), and a
\* successful attempt returns with no sleep after it.
C10_WaitsBounded ==
    /\ \A i \in SleepIndexes(req) :
          LET s == req.sleeps[i] IN
          IsRateLimit(s.e) =>
            /\ s.wait >= base_delay
            /\ s.wait <= Max(RetryAfterOf(s.e), MinCeiling)
            /\ (RetryAfterOf(s.e) = 5 => s.wait <= 10)
    /\ (req.status = "returned" /\ req.result = "value") =>
          Len(req.sleeps) = req.calls - 1

C10_Witness ==
    /\ req.status = "returned" /\ req.result = "value"
    /\ req.calls = 4
    /\ Len(req.sleeps) = 3
    /\ \A i \in SleepIndexes(req) : req.sleeps[i].e = RateLimit(5)

(***************************************************************************)
(* Properties of the two loops (under SpecLoops).                          *)
(***************************************************************************)
KnownIntervals == {"hour", "day", "week", "month", "year"}

\* C20: both loops end.  make_api_request: every step of a running call
\* invokes the operation once more, a call is running only with fewer than
\* max_attempts invocations behind it, so it returns or raises after at
\* most max_attempts.  get_charts_by_period: the delta is at least one hour
\* (one hour for an interval name that is not known), every tick moves the
\* timestamp forward by it from a timestamp not beyond end, and the ticks
\* taken never exceed floor((end - start) / delta) + 1 (none when start is
\* beyond end).
C20_LoopsTerminate ==
    /\ [][req.status = "running" =>
            /\ req'.calls = req.calls + 1
            /\ req'.attempt \in {req.attempt, req.attempt + 1}
            /\ req'.status = "running" => req'.attempt = req.attempt + 1]_vars
    /\ [](/\ req.calls <= max_attempts
          /\ req.attempt <= max_attempts
          /\ req.status = "running" => req.calls = req.attempt /\ req.attempt < max_attempts
          /\ req.attempt = max_attempts => Finished(req))
    /\ [][TickDone =>
            /\ run.current_date <= run.end_date
            /\ run'.current_date = run.current_date + run.delta
            /\ run'.current_date > run.current_date
            /\ run'.end_date = run.end_date /\ run'.delta = run.delta]_vars
    /\ [](run.pc # "none" =>
            /\ run.delta >= 1
            /\ run.interval \notin KnownIntervals => run.delta = 1
            /\ run.current_date = run.start_date + Len(run.ticks) * run.delta
            /\ Len(run.ticks) <=
                  Max(0, IntQuotient(run.end_date - run.start_date, run.delta) + 1)
            /\ run.pc = "done" => run.current_date > run.end_date)

C20_Witness ==
    /\ run.pc = "done"
    /\ run.interval \notin KnownIntervals
    /\ run.delta = 1
    /\ run.start_date <= run.end_date
    /\ Len(run.ticks) = run.end_date - run.start_date + 1
    /\ Len(run.ticks) = 3
    /\ run.tick_failed

====
